---- MODULE Spec2Model ----
(***************************************************************************)
(* Model of the client registry of src/main/client.c: the per-prefix      *)
(* trees of a RADCLIENT_LIST, the process-wide number index, client_add,  *)
(* client_delete, client_find and client_findbynumber.                     *)
(*                                                                         *)
(* A RADCLIENT is an element of the sequence `client`; a pointer to it is  *)
(* its index, and 0 is the NULL pointer.  A RADCLIENT_LIST is an element   *)
(* of the sequence `lists`, addressed the same way.  An rbtree is the set  *)
(* of the records linked into it; a search of the tree yields the set of  *)
(* nodes that compare equal to the key under the tree's comparator, and   *)
(* where that set has more than one element the node the search meets     *)
(* first depends on the shape of the tree, so every element is possible.  *)
(***************************************************************************)
EXTENDS Integers, Sequences, FiniteSets, TLC

\* ----------------------------------------------------------------- bounds
MaxClients == 3

\* ------------------------------------------------------ program constants
AF_INET == 2
AF_INET6 == 10
IPPROTO_IP == 0
IPPROTO_TCP == 6
IPPROTO_UDP == 17
InitMinPrefix == 128
NULL == 0
NoStr == "<null>"

\* ------------------------------------------------------------- addresses
\* An fr_ipaddr_t is [af, addr, prefix]; addr is the sequence of the
\* address bytes in network order (4 for AF_INET, 16 for AF_INET6).
Width(af) == IF af = AF_INET THEN 32 ELSE 128

Pow2(n) == 2 ^ n

V4(a, b, c, d) == <<a, b, c, d>>

V6(a, b, c, d, last) == <<a, b, c, d, 0, 0, 0, 0, 0, 0, 0, 0, 0, 0, 0, last>>

\* Byte i (from 1) of an address after keeping its first `prefix` bits.
MaskByte(byte, i, prefix) ==
    IF 8 * i <= prefix THEN byte
    ELSE IF 8 * (i - 1) >= prefix THEN 0
    ELSE byte - (byte % Pow2(8 * i - prefix))

fr_ipaddr_mask(ip, prefix) ==
    LET p == IF prefix > Width(ip.af) THEN Width(ip.af) ELSE prefix
    IN  [af |-> ip.af,
         addr |-> [i \in DOMAIN ip.addr |-> MaskByte(ip.addr[i], i, p)],
         prefix |-> prefix]

memcmp(x, y) ==
    LET diff == {i \in DOMAIN x : x[i] # y[i]}
    IN  IF diff = {} THEN 0
        ELSE LET i == CHOOSE j \in diff : \A k \in diff : j <= k
             IN  IF x[i] < y[i] THEN -1 ELSE 1

fr_ipaddr_cmp(a, b) ==
    IF a.af < b.af THEN -1
    ELSE IF a.af > b.af THEN 1
    ELSE IF a.prefix < b.prefix THEN -1
    ELSE IF a.prefix > b.prefix THEN 1
    ELSE memcmp(a.addr, b.addr)

fr_ipaddr_is_inaddr_any(ip) ==
    IF \A i \in DOMAIN ip.addr : ip.addr[i] = 0 THEN 1 ELSE 0

\* ----------------------------------------------------------- comparators
\* client_ipaddr_cmp as built without WITH_TCP: the transport is not compared.
client_ipaddr_cmp_notcp(a, b) == fr_ipaddr_cmp(a.ipaddr, b.ipaddr)

\* client_ipaddr_cmp without the wildcard case: IPPROTO_IP is a transport
\* like the others.
client_ipaddr_cmp_strict(a, b) ==
    LET rcode == fr_ipaddr_cmp(a.ipaddr, b.ipaddr)
    IN  IF rcode # 0 THEN rcode ELSE a.proto - b.proto

client_ipaddr_cmp(a, b) ==
    LET rcode == fr_ipaddr_cmp(a.ipaddr, b.ipaddr)
    IN  IF rcode # 0 THEN rcode
        ELSE IF a.proto = IPPROTO_IP \/ b.proto = IPPROTO_IP THEN 0
        ELSE a.proto - b.proto

client_num_cmp(a, b) == a.number - b.number

\* ------------------------------------------------------------- rbtree
\* tree->compare: the comparator the tree was created with, by name.
compare(cmp, a, b) ==
    IF cmp = "client_ipaddr_cmp" THEN client_ipaddr_cmp(a, b)
    ELSE client_num_cmp(a, b)

\* The nodes of `tree` that compare equal to `data` under cmp.
rbtree_find(cl, tree, data, cmp) == {n \in tree : compare(cmp, cl[n], data) = 0}

\* The possible results of rbtree_finddata: NULL when no node is equal.
rbtree_finddata(cl, tree, data, cmp) ==
    LET m == rbtree_find(cl, tree, data, cmp)
    IN  IF m = {} THEN {NULL} ELSE m

\* The possible trees after rbtree_deletebydata: the node found is unlinked
\* (the trees are created without a free callback).
rbtree_deletebydata(cl, tree, data, cmp) ==
    LET m == rbtree_find(cl, tree, data, cmp)
    IN  IF m = {} THEN {tree} ELSE {tree \ {n} : n \in m}

\* rbtree_insert on a tree created without RBTREE_FLAG_REPLACE: a node
\* that compares equal to one in the tree is not inserted.
rbtree_insert(cl, tree, n, cmp) ==
    IF rbtree_find(cl, tree, cl[n], cmp) # {}
    THEN [ok |-> FALSE, tree |-> tree]
    ELSE [ok |-> TRUE, tree |-> tree \cup {n}]

\* ---------------------------------------------------------- environment
\* The virtual servers of the configuration: virtual_server_find resolves
\* the names in VirtualServers, and cf_section_find(cs, "listen", NULL)
\* finds a section for those in ListenServers.
VirtualServers == {"srv1", "srv2"}

ListenServers == {"srv1"}

\* The threads of the server that call into the registry.
Threads == {"t1", "t2"}

Idle == [pc |-> "idle", clients |-> NULL, c |-> NULL]

\* No call of client_list_parse_section is under way.
NoReload == [pc |-> "idle"]

virtual_server_find(name) == IF name \in VirtualServers THEN name ELSE NoStr

cf_section_find_listen(cs) == cs \in ListenServers

\* ----------------------------------------------------------------- state
VARIABLES
    client,         \* the RADCLIENT records allocated so far
    lists,          \* the RADCLIENT_LISTs allocated so far
    root_clients,   \* static RADCLIENT_LIST *root_clients
    cf_data,        \* the RADCLIENT_LIST attached to each virtual server
    tree_num,       \* static rbtree_t *tree_num
    tree_num_max,   \* static int tree_num_max
    crashed,        \* the process dereferenced a NULL pointer
    last,           \* the last call and what it returned
    home,           \* the scope each record was successfully added under
    hs_proto,       \* static char const *hs_proto
    network,        \* request->client->network of each record built from a request
    cnt,            \* static int cnt of client_afrom_request
    thr,            \* where each thread that is inside client_add stands
    reload,         \* where the call of client_list_parse_section stands
    freed           \* the RADCLIENT_LISTs that were freed

\* The state outside the registry.
aux == <<hs_proto, network, cnt, thr, reload, freed>>

vars == <<client, lists, root_clients, cf_data, tree_num, tree_num_max,
          crashed, last, home, aux>>

\* The program state the operations read and write, as one value.
State == [client |-> client, lists |-> lists, root_clients |-> root_clients,
          cf_data |-> cf_data, tree_num |-> tree_num,
          tree_num_max |-> tree_num_max]

NoTrees == [p \in {} |-> {}]

client_list_init(name) ==
    [name |-> name, trees |-> NoTrees, min_prefix |-> InitMinPrefix]

\* ------------------------------------------------------------ client_find
\* client_find with the scan running upwards: the first hit is the
\* shortest matching prefix.
client_find_upwards(S, clients0, ipaddr, proto) ==
    LET clients == IF clients0 = NULL THEN S.root_clients ELSE clients0
    IN  IF clients = NULL \/ ipaddr.af \notin {AF_INET, AF_INET6} THEN {NULL}
        ELSE
        LET L == S.lists[clients]
            w == Width(ipaddr.af)
            max_prefix == IF ipaddr.prefix < w THEN ipaddr.prefix ELSE w
            key(i) == [ipaddr |-> fr_ipaddr_mask(ipaddr, i), proto |-> proto]
            hit(i) == rbtree_find(S.client, L.trees[i], key(i), "client_ipaddr_cmp")
            found == {i \in DOMAIN L.trees :
                        /\ i <= max_prefix
                        /\ i >= L.min_prefix
                        /\ hit(i) # {}}
        IN  IF found = {} THEN {NULL}
            ELSE hit(CHOOSE i \in found : \A j \in found : i <= j)

\* client_find with the loop condition i > min_prefix: the tree at the
\* watermark is never searched.
client_find_above(S, clients0, ipaddr, proto) ==
    LET clients == IF clients0 = NULL THEN S.root_clients ELSE clients0
    IN  IF clients = NULL \/ ipaddr.af \notin {AF_INET, AF_INET6} THEN {NULL}
        ELSE
        LET L == S.lists[clients]
            w == Width(ipaddr.af)
            max_prefix == IF ipaddr.prefix < w THEN ipaddr.prefix ELSE w
            key(i) == [ipaddr |-> fr_ipaddr_mask(ipaddr, i), proto |-> proto]
            hit(i) == rbtree_find(S.client, L.trees[i], key(i), "client_ipaddr_cmp")
            found == {i \in DOMAIN L.trees :
                        /\ i <= max_prefix
                        /\ i > L.min_prefix
                        /\ hit(i) # {}}
        IN  IF found = {} THEN {NULL}
            ELSE hit(CHOOSE i \in found : \A j \in found : j <= i)

\* client_find without line 362: the scan starts at the width of the
\* family whatever prefix the address carries.
client_find_noclamp(S, clients0, ipaddr, proto) ==
    LET clients == IF clients0 = NULL THEN S.root_clients ELSE clients0
    IN  IF clients = NULL \/ ipaddr.af \notin {AF_INET, AF_INET6} THEN {NULL}
        ELSE
        LET L == S.lists[clients]
            max_prefix == Width(ipaddr.af)
            key(i) == [ipaddr |-> fr_ipaddr_mask(ipaddr, i), proto |-> proto]
            hit(i) == rbtree_find(S.client, L.trees[i], key(i), "client_ipaddr_cmp")
            found == {i \in DOMAIN L.trees :
                        /\ i <= max_prefix
                        /\ i >= L.min_prefix
                        /\ hit(i) # {}}
        IN  IF found = {} THEN {NULL}
            ELSE hit(CHOOSE i \in found : \A j \in found : j <= i)

\* The possible results of client_find(clients, ipaddr, proto).  The loop
\* runs i from max_prefix down to min_prefix, skips the prefixes without a
\* tree, and returns at the first i whose tree holds a node equal to the
\* masked key: the greatest such i.
client_find(S, clients0, ipaddr, proto) ==
    LET clients == IF clients0 = NULL THEN S.root_clients ELSE clients0
    IN  IF clients = NULL \/ ipaddr.af \notin {AF_INET, AF_INET6} THEN {NULL}
        ELSE
        LET L == S.lists[clients]
            w == Width(ipaddr.af)
            max_prefix == IF ipaddr.prefix < w THEN ipaddr.prefix ELSE w
            key(i) == [ipaddr |-> fr_ipaddr_mask(ipaddr, i), proto |-> proto]
            hit(i) == rbtree_find(S.client, L.trees[i], key(i), "client_ipaddr_cmp")
            found == {i \in DOMAIN L.trees :
                        /\ i <= max_prefix
                        /\ i >= L.min_prefix
                        /\ hit(i) # {}}
        IN  IF found = {} THEN {NULL}
            ELSE hit(CHOOSE i \in found : \A j \in found : j <= i)

\* ----------------------------------------------------- client_findbynumber
client_findbynumber(S, clients0, number) ==
    LET clients == IF clients0 = NULL THEN S.root_clients ELSE clients0
    IN  IF clients = NULL THEN {NULL}
        ELSE IF number >= S.tree_num_max THEN {NULL}
        ELSE IF S.tree_num.created
             THEN rbtree_finddata(S.client, S.tree_num.nodes,
                                  [number |-> number], "client_num_cmp")
             ELSE {NULL}

\* ------------------------------------------------------------- client_add
namecmp(a, b) == (a = NoStr /\ b = NoStr) \/ (a # NoStr /\ b # NoStr /\ a = b)

\* client_add_fixup without the AF_INET6 case.
client_add_fixup_v4only(r) ==
    IF fr_ipaddr_is_inaddr_any(r.ipaddr) = 1
       /\ (r.ipaddr.af = AF_INET /\ r.ipaddr.prefix = 32)
    THEN [r EXCEPT !.ipaddr.prefix = 0]
    ELSE r

\* The wildcard fixup: an all-zero address with a full-width prefix becomes
\* prefix 0.  The record itself is rewritten.
client_add_fixup(r) ==
    IF fr_ipaddr_is_inaddr_any(r.ipaddr) = 1
       /\ \/ (r.ipaddr.af = AF_INET /\ r.ipaddr.prefix = 32)
          \/ (r.ipaddr.af = AF_INET6 /\ r.ipaddr.prefix = 128)
    THEN [r EXCEPT !.ipaddr.prefix = 0]
    ELSE r

\* client_add_scope without the virtual-server branch: a NULL list always
\* means the global list.
client_add_scope_global(S, clients, r) ==
    LET newid == Len(S.lists) + 1
    IN  IF clients # NULL THEN [ok |-> TRUE, S |-> S, clients |-> clients]
        ELSE IF S.root_clients = NULL
        THEN [ok |-> TRUE,
              S |-> [S EXCEPT !.lists = Append(@, client_list_init("root")),
                              !.root_clients = newid],
              clients |-> newid]
        ELSE [ok |-> TRUE, S |-> S, clients |-> S.root_clients]

\* client_add_scope without the test for a "listen" section: every virtual
\* server that resolves gets a list of its own.
client_add_scope_nolisten(S, clients, r) ==
    LET newid == Len(S.lists) + 1
        global ==
            IF S.root_clients = NULL
            THEN [ok |-> TRUE,
                  S |-> [S EXCEPT !.lists = Append(@, client_list_init("root")),
                                  !.root_clients = newid],
                  clients |-> newid]
            ELSE [ok |-> TRUE, S |-> S, clients |-> S.root_clients]
    IN  IF clients # NULL THEN [ok |-> TRUE, S |-> S, clients |-> clients]
        ELSE IF r.server # NoStr
        THEN LET cs == virtual_server_find(r.server)
             IN  IF cs = NoStr THEN [ok |-> FALSE, S |-> S, clients |-> NULL]
                 ELSE IF S.cf_data[cs] # NULL
                      THEN [ok |-> TRUE, S |-> S, clients |-> S.cf_data[cs]]
                      ELSE [ok |-> TRUE,
                            S |-> [S EXCEPT !.lists = Append(@, client_list_init(cs)),
                                            !.cf_data[cs] = newid],
                            clients |-> newid]
        ELSE global

\* The list the client goes to: [ok, S, clients].  A list that does not
\* exist yet is created here, before the client is looked at.
client_add_scope(S, clients, r) ==
    LET newid == Len(S.lists) + 1
        global ==
            IF S.root_clients = NULL
            THEN [ok |-> TRUE,
                  S |-> [S EXCEPT !.lists = Append(@, client_list_init("root")),
                                  !.root_clients = newid],
                  clients |-> newid]
            ELSE [ok |-> TRUE, S |-> S, clients |-> S.root_clients]
    IN  IF clients # NULL THEN [ok |-> TRUE, S |-> S, clients |-> clients]
        ELSE IF r.server # NoStr
        THEN LET cs == virtual_server_find(r.server)
             IN  IF cs = NoStr THEN [ok |-> FALSE, S |-> S, clients |-> NULL]
                 ELSE IF ~cf_section_find_listen(cs) THEN global
                 ELSE IF S.cf_data[cs] # NULL
                      THEN [ok |-> TRUE, S |-> S, clients |-> S.cf_data[cs]]
                      ELSE [ok |-> TRUE,
                            S |-> [S EXCEPT !.lists = Append(@, client_list_init(cs)),
                                            !.cf_data[cs] = newid],
                            clients |-> newid]
        ELSE global

\* The tree of the client's prefix, created when the list has none.
client_add_tree(S, l, p) ==
    IF p \in DOMAIN S.lists[l].trees THEN S
    ELSE [S EXCEPT !.lists[l].trees =
            [q \in DOMAIN @ \cup {p} |-> IF q \in DOMAIN @ THEN @[q] ELSE {}]]

\* "If it's a complete duplicate": what makes `old` and the new client the
\* same client.
client_add_same(old, r) ==
    /\ fr_ipaddr_cmp(old.ipaddr, r.ipaddr) = 0
    /\ old.ipaddr.prefix = r.ipaddr.prefix
    /\ namecmp(old.longname, r.longname)
    /\ namecmp(old.secret, r.secret)
    /\ namecmp(old.shortname, r.shortname)
    /\ namecmp(old.nas_type, r.nas_type)
    /\ namecmp(old.server, r.server)
    /\ old.message_authenticator = r.message_authenticator

\* client_add_insert with the number taken before the duplicate check: a
\* duplicate that is merged still uses up a number.
client_add_insert_early(S, l, c, old) ==
    LET r == S.client[c]
        p == r.ipaddr.prefix
    IN  IF old # NULL
        THEN IF client_add_same(S.client[old], r)
             THEN [rcode |-> TRUE, S |-> [S EXCEPT !.client[c].st = "freed",
                                                   !.tree_num_max = @ + 1]]
             ELSE [rcode |-> FALSE, S |-> S]
        ELSE [rcode |-> TRUE,
              S |-> [S EXCEPT
                !.lists[l].trees[p] = @ \cup {c},
                !.lists[l].min_prefix = IF p < @ THEN p ELSE @,
                !.tree_num = IF @.created
                             THEN [@ EXCEPT !.nodes = @ \cup {c}]
                             ELSE [created |-> TRUE, nodes |-> {c}, parent |-> l],
                !.client[c].number = S.tree_num_max,
                !.client[c].st = "added",
                !.tree_num_max = @ + 1]]

\* client_add_insert without lines 276-278: min_prefix is left as it was.
client_add_insert_nomin(S, l, c, old) ==
    LET r == S.client[c]
        p == r.ipaddr.prefix
    IN  IF old # NULL
        THEN IF client_add_same(S.client[old], r)
             THEN [rcode |-> TRUE, S |-> [S EXCEPT !.client[c].st = "freed"]]
             ELSE [rcode |-> FALSE, S |-> S]
        ELSE [rcode |-> TRUE,
              S |-> [S EXCEPT
                !.lists[l].trees[p] = @ \cup {c},
                !.tree_num = IF @.created
                             THEN [@ EXCEPT !.nodes = @ \cup {c}]
                             ELSE [created |-> TRUE, nodes |-> {c}, parent |-> l],
                !.client[c].number = S.tree_num_max,
                !.client[c].st = "added",
                !.tree_num_max = @ + 1]]

\* The rest of client_add once the list l is known and the search of the
\* prefix tree returned `old`: [rcode, S].
client_add_insert(S, l, c, old) ==
    LET r == S.client[c]
        p == r.ipaddr.prefix
    IN  IF old # NULL
        THEN IF client_add_same(S.client[old], r)
             THEN [rcode |-> TRUE, S |-> [S EXCEPT !.client[c].st = "freed"]]
             ELSE [rcode |-> FALSE, S |-> S]
        ELSE [rcode |-> TRUE,
              S |-> [S EXCEPT
                !.lists[l].trees[p] = @ \cup {c},
                !.lists[l].min_prefix = IF p < @ THEN p ELSE @,
                !.tree_num = IF @.created
                             THEN [@ EXCEPT !.nodes = @ \cup {c}]
                             ELSE [created |-> TRUE, nodes |-> {c}, parent |-> l],
                !.client[c].number = S.tree_num_max,
                !.client[c].st = "added",
                !.tree_num_max = @ + 1]]

\* The possible outcomes of client_add(clients, c): [rcode, S].
client_add(S, clients, c) ==
    LET r == client_add_fixup(S.client[c])
        S1 == [S EXCEPT !.client[c] = r]
        sc == client_add_scope(S1, clients, r)
    IN  IF ~sc.ok THEN {[rcode |-> FALSE, S |-> S1]}
        ELSE LET S2 == client_add_tree(sc.S, sc.clients, r.ipaddr.prefix)
                 olds == rbtree_finddata(S2.client,
                             S2.lists[sc.clients].trees[r.ipaddr.prefix],
                             r, "client_ipaddr_cmp")
             IN  {client_add_insert(S2, sc.clients, c, old) : old \in olds}

\* ---------------------------------------------------------- client_delete
\* The possible outcomes of client_delete(clients, client), where r is the
\* record the pointer is read through: [crashed, S].  rbtree_deletebydata
\* dereferences its tree, so a call on a tree that was never created ends
\* the process.
client_delete(S, clients0, r) ==
    LET clients == IF clients0 = NULL THEN S.root_clients ELSE clients0
        p == r.ipaddr.prefix
    IN  IF ~S.tree_num.created \/ clients = NULL THEN {[crashed |-> TRUE, S |-> S]}
        ELSE IF p \notin DOMAIN S.lists[clients].trees
        THEN {[crashed |-> TRUE, S |-> S]}
        ELSE {[crashed |-> FALSE,
               S |-> [S EXCEPT !.tree_num.nodes = n,
                               !.lists[clients].trees[p] = t]] :
                n \in rbtree_deletebydata(S.client, S.tree_num.nodes, r, "client_num_cmp"),
                t \in rbtree_deletebydata(S.client, S.lists[clients].trees[p], r,
                                          "client_ipaddr_cmp")}

\* -------------------------------------------------------- client_afrom_cs
\* A client section as cf_section_parse and cf_pair_find see it:
\*   name2           the second name of the section, NoStr when missing
\*   parse_ok        cf_section_parse succeeds
\*   ipaddr          the parsed ipaddr/ipv4addr/ipv6addr pair, NoIp when the
\*                   section has none (cl_ipaddr stays as memset left it)
\*   proto, secret, shortname, nas_type, virtual_server, dhcp
\*                   the value of the pair, NoStr when the section has none
\*   message_authenticator
NoIp == [af |-> 0, addr |-> <<>>, prefix |-> 0]

\* cf_section_parse stores the proto pair in hs_proto; without the pair the
\* static keeps the value it had.
cf_section_parse_proto(hs, cs) == IF cs.proto # NoStr THEN cs.proto ELSE hs

\* The error label without the reset of hs_proto.
client_afrom_cs_error_keep(hs) == [ok |-> FALSE, hs_proto |-> hs]

\* The error label: the client is freed and hs_proto is reset.
client_afrom_cs_error(hs) == [ok |-> FALSE, hs_proto |-> NoStr]

\* client_afrom_cs_server without the test of server_cs at line 646: a
\* client inside a server section may point to a server.
client_afrom_cs_server_noconflict(cs, server_cs) ==
    IF cs.virtual_server # NoStr
    THEN IF virtual_server_find(cs.virtual_server) = NoStr
         THEN [ok |-> FALSE, server |-> NoStr]
         ELSE [ok |-> TRUE, server |-> cs.virtual_server]
    ELSE IF server_cs # NoStr THEN [ok |-> TRUE, server |-> server_cs]
    ELSE [ok |-> TRUE, server |-> NoStr]

\* "Find the virtual server for this client": [ok, server].
client_afrom_cs_server(cs, server_cs) ==
    IF cs.virtual_server # NoStr
    THEN IF server_cs # NoStr THEN [ok |-> FALSE, server |-> NoStr]
         ELSE IF virtual_server_find(cs.virtual_server) = NoStr
              THEN [ok |-> FALSE, server |-> NoStr]
              ELSE [ok |-> TRUE, server |-> cs.virtual_server]
    ELSE IF server_cs # NoStr THEN [ok |-> TRUE, server |-> server_cs]
    ELSE [ok |-> TRUE, server |-> NoStr]

\* The transport of the client from hs_proto:
\* [ok, proto, tls_required, hs_proto].
client_afrom_cs_proto(hs) ==
    IF hs = NoStr
    THEN [ok |-> TRUE, proto |-> IPPROTO_UDP, tls_required |-> FALSE, hs_proto |-> hs]
    ELSE IF hs = "udp"
    THEN [ok |-> TRUE, proto |-> IPPROTO_UDP, tls_required |-> FALSE, hs_proto |-> NoStr]
    ELSE IF hs = "tcp"
    THEN [ok |-> TRUE, proto |-> IPPROTO_TCP, tls_required |-> FALSE, hs_proto |-> NoStr]
    ELSE IF hs = "tls"
    THEN [ok |-> TRUE, proto |-> IPPROTO_TCP, tls_required |-> TRUE, hs_proto |-> NoStr]
    ELSE IF hs = "radsec"
    THEN [ok |-> TRUE, proto |-> IPPROTO_TCP, tls_required |-> TRUE, hs_proto |-> NoStr]
    ELSE IF hs = "*"
    THEN [ok |-> TRUE, proto |-> IPPROTO_IP, tls_required |-> FALSE, hs_proto |-> NoStr]
    ELSE [ok |-> FALSE, proto |-> IPPROTO_UDP, tls_required |-> FALSE, hs_proto |-> hs]

\* The secret of the client: [ok, secret].  A DHCP client is returned with
\* the secret it has; a TLS client gets "radsec".
client_afrom_cs_secret(cs, tls_required) ==
    IF cs.secret = NoStr \/ cs.secret = ""
    THEN IF cs.dhcp = "yes" THEN [ok |-> TRUE, secret |-> cs.secret]
         ELSE IF tls_required THEN [ok |-> TRUE, secret |-> "radsec"]
         ELSE [ok |-> FALSE, secret |-> cs.secret]
    ELSE [ok |-> TRUE, secret |-> cs.secret]

\* client_afrom_cs(ctx, cs, server_cs) called with hs_proto = hs0:
\* [ok, c, hs_proto], c being the record returned when ok.
client_afrom_cs(hs0, cs, server_cs) ==
    IF cs.name2 = NoStr THEN [ok |-> FALSE, hs_proto |-> hs0]
    ELSE
    LET hs == cf_section_parse_proto(hs0, cs)
        sv == client_afrom_cs_server(cs, server_cs)
        pr == client_afrom_cs_proto(hs)
        sc == client_afrom_cs_secret(cs, pr.tls_required)
    IN  IF ~cs.parse_ok THEN client_afrom_cs_error(hs)
        ELSE IF ~sv.ok THEN client_afrom_cs_error(hs)
        ELSE IF cs.ipaddr = NoIp THEN client_afrom_cs_error(hs)
        ELSE IF ~pr.ok THEN client_afrom_cs_error(pr.hs_proto)
        ELSE IF ~sc.ok THEN client_afrom_cs_error(pr.hs_proto)
        ELSE [ok |-> TRUE,
              c |-> [ipaddr |-> cs.ipaddr, proto |-> pr.proto,
                     longname |-> "long", secret |-> sc.secret,
                     shortname |-> IF cs.shortname # NoStr THEN cs.shortname
                                   ELSE cs.name2,
                     nas_type |-> cs.nas_type, server |-> sv.server,
                     message_authenticator |-> cs.message_authenticator,
                     tls_required |-> pr.tls_required,
                     number |-> 0, st |-> "built"],
              hs_proto |-> pr.hs_proto]

\* ----------------------------------------------------------------- inputs
\* What the builders hand to client_add: records allocated with
\* talloc_zero (number 0), the address masked to its prefix by the parser.
Ip(af, addr, prefix) == [af |-> af, addr |-> addr, prefix |-> prefix]

Host4 == Ip(AF_INET, V4(10, 1, 2, 3), 32)

Net4 == Ip(AF_INET, V4(10, 0, 0, 0), 8)

Any4 == Ip(AF_INET, V4(0, 0, 0, 0), 32)

Net6 == Ip(AF_INET6, V6(32, 1, 13, 184, 0), 32)

Any6 == Ip(AF_INET6, V6(0, 0, 0, 0, 0), 128)

Built(ip, proto, secret, server) ==
    [ipaddr |-> ip, proto |-> proto, longname |-> "long", secret |-> secret,
     shortname |-> "short", nas_type |-> NoStr, server |-> server,
     message_authenticator |-> FALSE, tls_required |-> FALSE,
     number |-> 0, st |-> "built"]

Protos == {IPPROTO_IP, IPPROTO_UDP, IPPROTO_TCP}

Templates ==
    {Built(Host4, pr, "s1", NoStr) : pr \in Protos}
    \cup {Built(Host4, IPPROTO_TCP, "s2", NoStr)}
    \cup {Built(Host4, IPPROTO_UDP, "s1", sv) : sv \in {"srv1", "srv2", "nosuch"}}
    \cup {Built(Net4, IPPROTO_IP, "s1", NoStr), Built(Any4, IPPROTO_UDP, "s1", NoStr),
          Built(Any6, IPPROTO_IP, "s1", NoStr), Built(Net6, IPPROTO_TCP, "s1", NoStr)}

\* --------------------------------------------------- client_afrom_request
\* fr_inet_ntop prints the address without its prefix, and the parser of
\* the ipv4addr/ipv6addr pair reads it back as a host of full width.
fr_inet_ntop(ip) == Ip(ip.af, ip.addr, Width(ip.af))

\* fr_inet_ntop_prefix prints address/prefix, and the parser reads it back
\* and clears the bits outside the prefix.
fr_inet_ntop_prefix(ip) == fr_ipaddr_mask(ip, ip.prefix)

\* The section client_afrom_request builds from the control attributes of
\* the request: ip is the FreeRADIUS-Client-IP(v6)-Address (kind "addr") or
\* -Prefix (kind "prefix") attribute, NoIp with neither.
client_afrom_request_cs(n, request) ==
    [name2 |-> "dynamic" \o ToString(n),
     parse_ok |-> TRUE,
     ipaddr |-> IF request.ip = NoIp THEN NoIp
                ELSE IF request.kind = "addr" THEN fr_inet_ntop(request.ip)
                ELSE fr_inet_ntop_prefix(request.ip),
     proto |-> NoStr, secret |-> request.secret,
     shortname |-> request.shortname, nas_type |-> request.nas_type,
     virtual_server |-> NoStr, dhcp |-> NoStr,
     message_authenticator |-> FALSE]

\* The sanity checks without the comparison of the prefix lengths.
client_afrom_request_checks_noprefix(net, ipaddr) ==
    /\ net.af = ipaddr.af
    /\ fr_ipaddr_cmp(fr_ipaddr_mask(ipaddr, net.prefix), net) = 0

\* "Do some basic sanity checks": TRUE when the client is returned.
client_afrom_request_checks(net, ipaddr) ==
    /\ net.af = ipaddr.af
    /\ ~(net.prefix > ipaddr.prefix)
    /\ fr_ipaddr_cmp(fr_ipaddr_mask(ipaddr, net.prefix), net) = 0

\* client_afrom_request(ctx, request) called with hs_proto = hs and
\* cnt = n: [ok, c, hs_proto, cnt].
client_afrom_request(hs, n, request) ==
    LET R == client_afrom_cs(hs, client_afrom_request_cs(n, request),
                             request.server_cs)
    IN  IF ~R.ok THEN [ok |-> FALSE, hs_proto |-> R.hs_proto, cnt |-> n + 1]
        ELSE IF ~client_afrom_request_checks(request.network, R.c.ipaddr)
        THEN [ok |-> FALSE, hs_proto |-> R.hs_proto, cnt |-> n + 1]
        ELSE [ok |-> TRUE, c |-> R.c, hs_proto |-> R.hs_proto, cnt |-> n + 1]

\* The client sections given to client_afrom_cs: a section that builds,
\* with every transport string, and the same section with one thing wrong.
Section(proto, secret) ==
    [name2 |-> "c1", parse_ok |-> TRUE, ipaddr |-> Host4, proto |-> proto,
     secret |-> secret, shortname |-> NoStr, nas_type |-> NoStr,
     virtual_server |-> NoStr, dhcp |-> NoStr, message_authenticator |-> FALSE]

ProtoStrings == {NoStr, "udp", "tcp", "tls", "radsec", "*", "any", "sctp", "UDP"}

ConfSections ==
    {Section(p, sec) : p \in ProtoStrings, sec \in {"s1", NoStr}}
    \cup {[Section(p, "s1") EXCEPT !.name2 = NoStr] : p \in {NoStr, "tcp"}}
    \cup {[Section(p, "s1") EXCEPT !.parse_ok = FALSE] : p \in {NoStr, "tcp"}}
    \cup {[Section(p, "s1") EXCEPT !.ipaddr = NoIp] : p \in {NoStr, "tcp"}}
    \cup {[Section(p, "s1") EXCEPT !.virtual_server = sv] :
                p \in {NoStr, "sctp"}, sv \in {"srv1", "nosuch"}}
    \cup {[Section(p, sec) EXCEPT !.dhcp = "yes"] :
                p \in {NoStr, "sctp", "tls"}, sec \in {"", NoStr}}
    \cup {[Section(NoStr, "s1") EXCEPT !.shortname = "nas", !.ipaddr = Net6]}

\* The section a client section is built in: none, or a server section.
ServerSections == {NoStr, "srv1"}

\* The requests given to client_afrom_request: the network the request
\* arrived on and the address attribute of its control list.
Zero4 == Ip(AF_INET, V4(0, 0, 0, 0), 8)

ReqNets == {Net4, Zero4, Net6}

ReqIps ==
    {[kind |-> "addr", ip |-> Host4],
     [kind |-> "prefix", ip |-> Ip(AF_INET, V4(10, 1, 2, 3), 16)],
     [kind |-> "prefix", ip |-> Ip(AF_INET, V4(10, 0, 0, 0), 7)],
     [kind |-> "addr", ip |-> Ip(AF_INET, V4(192, 0, 2, 1), 32)],
     [kind |-> "addr", ip |-> Any4],
     [kind |-> "prefix", ip |-> Ip(AF_INET, V4(0, 0, 0, 0), 0)],
     [kind |-> "addr", ip |-> Ip(AF_INET6, V6(32, 1, 13, 184, 1), 128)],
     [kind |-> "addr", ip |-> Any6],
     [kind |-> "addr", ip |-> NoIp]}

Requests ==
    {[network |-> n, kind |-> a.kind, ip |-> a.ip, secret |-> sec,
      shortname |-> NoStr, nas_type |-> NoStr, server_cs |-> sv] :
        n \in ReqNets, a \in ReqIps, sec \in {"s1", NoStr}, sv \in ServerSections}

\* ------------------------------------------------------------------- Init
InitState ==
    [client |-> <<>>, lists |-> <<>>, root_clients |-> NULL,
     cf_data |-> [s \in VirtualServers |-> NULL],
     tree_num |-> [created |-> FALSE, nodes |-> {}, parent |-> NULL],
     tree_num_max |-> 0]

Init ==
    /\ client = InitState.client
    /\ lists = InitState.lists
    /\ root_clients = InitState.root_clients
    /\ cf_data = InitState.cf_data
    /\ tree_num = InitState.tree_num
    /\ tree_num_max = InitState.tree_num_max
    /\ crashed = FALSE
    /\ last = [op |-> "init", rcode |-> TRUE]
    /\ home = <<>>
    /\ hs_proto = NoStr
    /\ network = <<>>
    /\ cnt = 0
    /\ thr = [t \in Threads |-> Idle]
    /\ reload = NoReload
    /\ freed = {}

\* The scope a call of client_add names: the server whose list it is, or
\* the default scope.
ScopeOf(S, clients, r) ==
    IF clients # NULL
    THEN IF clients = S.root_clients THEN "default"
         ELSE IF \E s \in VirtualServers : S.cf_data[s] = clients
              THEN CHOOSE s \in VirtualServers : S.cf_data[s] = clients
              ELSE "unattached"
    ELSE IF r.server \in ListenServers THEN r.server ELSE "default"

SetState(S) ==
    /\ client' = S.client
    /\ lists' = S.lists
    /\ root_clients' = S.root_clients
    /\ cf_data' = S.cf_data
    /\ tree_num' = S.tree_num
    /\ tree_num_max' = S.tree_num_max

\* ---------------------------------------------------------------- actions
\* A builder allocates a record.
ClientNew(t) ==
    /\ ~crashed
    /\ Len(client) < MaxClients
    /\ client' = Append(client, t)
    /\ home' = Append(home, "")
    /\ last' = [op |-> "new", rcode |-> TRUE]
    /\ UNCHANGED <<lists, root_clients, cf_data, tree_num, tree_num_max, crashed>>
    /\ UNCHANGED aux

\* client_add(clients, c) on a record the caller owns.
ClientAdd(clients, c) ==
    /\ ~crashed
    /\ client[c].st = "built"
    /\ \E R \in client_add(State, clients, c) :
        /\ SetState(R.S)
        /\ last' = [op |-> "add", rcode |-> R.rcode]
        /\ home' = IF R.rcode
                   THEN [home EXCEPT ![c] = ScopeOf(R.S, clients, R.S.client[c])]
                   ELSE home
    /\ UNCHANGED <<crashed, aux>>

\* client_delete(clients, c) on a record that was not freed.  A crash ends
\* the process: nothing of its memory is left, and no operation follows.
ClientDelete(clients, c) ==
    /\ ~crashed
    /\ client[c].st # "freed"
    /\ \E R \in client_delete(State, clients, client[c]) :
        IF R.crashed
        THEN /\ SetState(InitState)
             /\ crashed' = TRUE
             /\ last' = [op |-> "crash", rcode |-> FALSE]
             /\ home' = <<>>
        ELSE /\ SetState(R.S)
             /\ crashed' = FALSE
             /\ last' = [op |-> "delete", rcode |-> TRUE]
             /\ UNCHANGED home
    /\ UNCHANGED aux

\* client_afrom_cs(ctx, cs, server_cs): the record it returns is the
\* caller's.
ClientFromCs(cs, server_cs) ==
    /\ ~crashed
    /\ Len(client) < MaxClients
    /\ LET R == client_afrom_cs(hs_proto, cs, server_cs)
       IN  /\ hs_proto' = R.hs_proto
           /\ client' = IF R.ok THEN Append(client, R.c) ELSE client
           /\ home' = IF R.ok THEN Append(home, "") ELSE home
           /\ last' = [op |-> "afrom_cs", rcode |-> R.ok]
    /\ UNCHANGED <<lists, root_clients, cf_data, tree_num, tree_num_max, crashed>>
    /\ UNCHANGED <<network, cnt, thr, reload, freed>>

\* client_afrom_request(ctx, request): the record it returns is the
\* caller's; the network the request arrived on is remembered for it.
ClientFromRequest(request) ==
    /\ ~crashed
    /\ Len(client) < MaxClients
    /\ cnt < MaxClients
    /\ LET R == client_afrom_request(hs_proto, cnt, request)
           c == Len(client) + 1
       IN  /\ hs_proto' = R.hs_proto
           /\ cnt' = R.cnt
           /\ client' = IF R.ok THEN Append(client, R.c) ELSE client
           /\ home' = IF R.ok THEN Append(home, "") ELSE home
           /\ network' = IF R.ok
                         THEN [d \in DOMAIN network \cup {c} |->
                                 IF d = c THEN request.network ELSE network[d]]
                         ELSE network
           /\ last' = [op |-> "afrom_request", rcode |-> R.ok]
    /\ UNCHANGED <<lists, root_clients, cf_data, tree_num, tree_num_max, crashed>>
    /\ UNCHANGED <<thr, reload, freed>>

Next ==
    \/ \E t \in Templates : ClientNew(t)
    \/ \E c \in DOMAIN client, l \in 0..Len(lists) : ClientAdd(l, c)
    \/ \E c \in DOMAIN client, l \in 0..Len(lists) : ClientDelete(l, c)

Spec == Init /\ [][Next]_vars

\* The builder alone: client sections are turned into records.
NextBuild == \E cs \in ConfSections, sv \in ServerSections : ClientFromCs(cs, sv)

SpecBuild == Init /\ [][NextBuild]_vars

\* Dynamic clients: records are built from requests and added.
NextDyn ==
    \/ \E rq \in Requests : ClientFromRequest(rq)
    \/ \E c \in DOMAIN client, l \in 0..Len(lists) : ClientAdd(l, c)

SpecDyn == Init /\ [][NextDyn]_vars

\* ------------------------------------------- client_add, statement by statement
\* client_add as a thread runs it: each action is one statement (or one
\* call of a library function) of client_add, and the statements of
\* different threads interleave; the function takes no lock.
\* thr[t] = [pc, clients, c] holds the statement thread t is at and its
\* locals.

\* The thread returns rcode; st says who owns the record afterwards.
AddReturn(t, rcode, st) ==
    /\ thr' = [thr EXCEPT ![t] = Idle]
    /\ last' = [op |-> "add", rcode |-> rcode]
    /\ client' = [client EXCEPT ![thr[t].c].st = st]

Goto(t, pc) == thr' = [thr EXCEPT ![t].pc = pc]

\* Lines 137-163: the call and the wildcard fixup.
AddCall(t, clients, c) ==
    /\ ~crashed
    /\ thr[t].pc = "idle"
    /\ client[c].st = "built"
    /\ client' = [client EXCEPT ![c] = [client_add_fixup(@) EXCEPT !.st = "adding"]]
    /\ thr' = [thr EXCEPT ![t] = [pc |-> "scope", clients |-> clients, c |-> c]]
    /\ UNCHANGED <<lists, root_clients, cf_data, tree_num, tree_num_max, crashed,
                   last, home, hs_proto, network, cnt, reload, freed>>

\* Lines 172-220: the list the client goes to.
AddScope(t) ==
    /\ thr[t].pc = "scope"
    /\ LET sc == client_add_scope(State, thr[t].clients, client[thr[t].c])
       IN  IF ~sc.ok
           THEN /\ AddReturn(t, FALSE, "built")
                /\ UNCHANGED <<lists, root_clients, cf_data>>
           ELSE /\ lists' = sc.S.lists
                /\ root_clients' = sc.S.root_clients
                /\ cf_data' = sc.S.cf_data
                /\ thr' = [thr EXCEPT ![t].pc = "tree", ![t].clients = sc.clients]
                /\ UNCHANGED <<client, last>>
    /\ UNCHANGED <<tree_num, tree_num_max, crashed, home, hs_proto, network, cnt, reload, freed>>

\* Lines 225-230: the tree of the client's prefix.
AddTree(t) ==
    /\ thr[t].pc = "tree"
    /\ lists' = client_add_tree(State, thr[t].clients,
                                client[thr[t].c].ipaddr.prefix).lists
    /\ Goto(t, "find")
    /\ UNCHANGED <<client, root_clients, cf_data, tree_num, tree_num_max, crashed,
                   last, home, hs_proto, network, cnt, reload, freed>>

\* Lines 237-256: the search for the same client.
AddFind(t) ==
    /\ thr[t].pc = "find"
    /\ LET c == thr[t].c
           p == client[c].ipaddr.prefix
       IN  \E old \in rbtree_finddata(client, lists[thr[t].clients].trees[p],
                                      client[c], "client_ipaddr_cmp") :
             IF old = NULL
             THEN Goto(t, "insert") /\ UNCHANGED <<client, last>>
             ELSE IF client_add_same(client[old], client[c])
                  THEN AddReturn(t, TRUE, "freed")
                  ELSE AddReturn(t, FALSE, "built")
    /\ UNCHANGED <<lists, root_clients, cf_data, tree_num, tree_num_max, crashed,
                   home, hs_proto, network, cnt, reload, freed>>

\* Lines 262-264: rbtree_insert into the prefix tree.
AddInsert(t) ==
    /\ thr[t].pc = "insert"
    /\ LET c == thr[t].c
           l == thr[t].clients
           p == client[c].ipaddr.prefix
           R == rbtree_insert(client, lists[l].trees[p], c, "client_ipaddr_cmp")
       IN  IF ~R.ok
           THEN AddReturn(t, FALSE, "built") /\ UNCHANGED lists
           ELSE /\ lists' = [lists EXCEPT ![l].trees[p] = R.tree]
                /\ Goto(t, "tree_num")
                /\ UNCHANGED <<client, last>>
    /\ UNCHANGED <<root_clients, cf_data, tree_num, tree_num_max, crashed,
                   home, hs_proto, network, cnt, reload, freed>>

\* Lines 267-269: the number index is created by the first insert.
AddTreeNum(t) ==
    /\ thr[t].pc = "tree_num"
    /\ tree_num' = IF tree_num.created THEN tree_num
                   ELSE [created |-> TRUE, nodes |-> {}, parent |-> thr[t].clients]
    /\ Goto(t, "number")
    /\ UNCHANGED <<client, lists, root_clients, cf_data, tree_num_max, crashed,
                   last, home, hs_proto, network, cnt, reload, freed>>

\* Line 271: client->number = tree_num_max.
AddNumber(t) ==
    /\ thr[t].pc = "number"
    /\ client' = [client EXCEPT ![thr[t].c].number = tree_num_max]
    /\ Goto(t, "max")
    /\ UNCHANGED <<lists, root_clients, cf_data, tree_num, tree_num_max, crashed,
                   last, home, hs_proto, network, cnt, reload, freed>>

\* Line 272: tree_num_max++.
AddMax(t) ==
    /\ thr[t].pc = "max"
    /\ tree_num_max' = tree_num_max + 1
    /\ Goto(t, "index")
    /\ UNCHANGED <<client, lists, root_clients, cf_data, tree_num, crashed,
                   last, home, hs_proto, network, cnt, reload, freed>>

\* Line 273: rbtree_insert into the number index; the result is not read.
AddIndex(t) ==
    /\ thr[t].pc = "index"
    /\ tree_num' = IF tree_num.created
                   THEN [tree_num EXCEPT !.nodes =
                            rbtree_insert(client, @, thr[t].c, "client_num_cmp").tree]
                   ELSE tree_num
    /\ Goto(t, "min_prefix")
    /\ UNCHANGED <<client, lists, root_clients, cf_data, tree_num_max, crashed,
                   last, home, hs_proto, network, cnt, reload, freed>>

\* Lines 276-282: the watermark, and the return.
AddMinPrefix(t) ==
    /\ thr[t].pc = "min_prefix"
    /\ LET l == thr[t].clients
           p == client[thr[t].c].ipaddr.prefix
       IN  lists' = [lists EXCEPT ![l].min_prefix = IF p < @ THEN p ELSE @]
    /\ AddReturn(t, TRUE, "added")
    /\ UNCHANGED <<root_clients, cf_data, tree_num, tree_num_max, crashed,
                   home, hs_proto, network, cnt, reload, freed>>

\* The records the threads add.
ConcTemplates ==
    {Built(Host4, IPPROTO_UDP, "s1", NoStr), Built(Net4, IPPROTO_IP, "s1", NoStr)}

NextConc ==
    \/ \E r \in ConcTemplates : ClientNew(r)
    \/ \E t \in Threads, c \in DOMAIN client, l \in 0..Len(lists) : AddCall(t, l, c)
    \/ \E t \in Threads : AddScope(t)
    \/ \E t \in Threads : AddTree(t)
    \/ \E t \in Threads : AddFind(t)
    \/ \E t \in Threads : AddInsert(t)
    \/ \E t \in Threads : AddTreeNum(t)
    \/ \E t \in Threads : AddNumber(t)
    \/ \E t \in Threads : AddMax(t)
    \/ \E t \in Threads : AddIndex(t)
    \/ \E t \in Threads : AddMinPrefix(t)

SpecConc == Init /\ [][NextConc]_vars

\* ----------------------------------------------- client_list_parse_section
\* talloc_free(clients): the list goes, and with it the records that were
\* stolen into it.  The number index keeps its nodes.
talloc_free_clients(S, l) ==
    LET mine == UNION {S.lists[l].trees[p] : p \in DOMAIN S.lists[l].trees}
    IN  [S EXCEPT !.client = [i \in DOMAIN S.client |->
                                IF i \in mine
                                THEN [S.client[i] EXCEPT !.st = "freed"]
                                ELSE S.client[i]]]

\* The sections given to client_list_parse_section: the root of a
\* configuration tree that was just read, or the section of a virtual
\* server, with the client sections found in it.
SecHost == Section(NoStr, "s1")

SecNet == [Section("tcp", "s1") EXCEPT !.name2 = "c2", !.ipaddr = Net4]

SecTls == [Section("tls", NoStr) EXCEPT !.name2 = "c3", !.ipaddr = Net6]

SecBad == [Section("sctp", "s1") EXCEPT !.name2 = "c4"]

SecConflict == [Section(NoStr, "s2") EXCEPT !.name2 = "c5"]

Main(cl) == [name1 |-> "main", name2 |-> NoStr, root |-> TRUE, clients |-> cl]

Server(name, cl) ==
    [name1 |-> "server", name2 |-> name, root |-> FALSE, clients |-> cl]

ParseSections ==
    {Main(<<>>), Main(<<SecHost>>), Main(<<SecTls>>), Main(<<SecHost, SecNet>>),
     Main(<<SecNet, SecBad>>), Main(<<SecHost, SecConflict>>),
     Main(<<SecNet, SecTls>>), Server("srv1", <<SecHost>>),
     Server("srv2", <<SecNet>>)}

\* cf_data_find(section, RADCLIENT_LIST, NULL): a configuration root that
\* was just read carries no list; a server section carries the list that
\* was attached to it.
cf_data_find(section) ==
    IF section.name1 = "server" THEN cf_data[section.name2] ELSE NULL

\* The call, with the handle replaced before the clients are read.
ParseBegin_swapfirst(section, tls_required) ==
    /\ ~crashed
    /\ reload.pc = "idle"
    /\ Len(client) + Len(section.clients) <= MaxClients
    /\ Len(lists) < MaxClients
    /\ IF cf_data_find(section) # NULL
       THEN /\ last' = [op |-> "parse_section", rcode |-> TRUE]
            /\ UNCHANGED <<lists, reload, root_clients>>
       ELSE /\ lists' = Append(lists, client_list_init(section.name1))
            /\ reload' = [pc |-> "loop", section |-> section, cs |-> 1,
                          clients |-> Len(lists) + 1,
                          tls_required |-> tls_required,
                          global |-> section.root,
                          server_cs |-> IF section.name1 = "server"
                                        THEN section.name2 ELSE NoStr]
            /\ root_clients' = IF section.root THEN Len(lists) + 1
                               ELSE root_clients
            /\ last' = [op |-> "parse_begin", rcode |-> TRUE]
    /\ UNCHANGED <<client, cf_data, tree_num, tree_num_max, crashed,
                   home, hs_proto, network, cnt, thr, freed>>

\* client_list_parse_section(section, tls_required) up to its loop: the
\* list attached to the section is returned, or a list is created.
ParseBegin(section, tls_required) ==
    /\ ~crashed
    /\ reload.pc = "idle"
    /\ Len(client) + Len(section.clients) <= MaxClients
    /\ Len(lists) < MaxClients
    /\ IF cf_data_find(section) # NULL
       THEN /\ last' = [op |-> "parse_section", rcode |-> TRUE]
            /\ UNCHANGED <<lists, reload>>
       ELSE /\ lists' = Append(lists, client_list_init(section.name1))
            /\ reload' = [pc |-> "loop", section |-> section, cs |-> 1,
                          clients |-> Len(lists) + 1,
                          tls_required |-> tls_required,
                          global |-> section.root,
                          server_cs |-> IF section.name1 = "server"
                                        THEN section.name2 ELSE NoStr]
            /\ last' = [op |-> "parse_begin", rcode |-> TRUE]
    /\ UNCHANGED <<client, root_clients, cf_data, tree_num, tree_num_max,
                   crashed, home, hs_proto, network, cnt, thr, freed>>

\* tree_num was created as a child of a list that was freed since: the
\* static pointer is left dangling, and rbtree_insert, rbtree_finddata and
\* rbtree_deletebydata on it read freed memory.
Dangling == tree_num.created /\ tree_num.parent \in freed

\* One outcome of reading freed memory: the process ends, and nothing of
\* its memory is left.  The other outcome modelled is that the freed memory
\* still holds what it held.
Crash ==
    /\ SetState(InitState)
    /\ crashed' = TRUE
    /\ last' = [op |-> "crash", rcode |-> FALSE]
    /\ home' = <<>>
    /\ reload' = NoReload
    /\ freed' = {}

\* The error label and the failure of cf_data_add: the list is freed and
\* NULL is returned.
ParseError(S) ==
    /\ SetState(talloc_free_clients(S, reload.clients))
    /\ freed' = freed \cup {reload.clients}
    /\ reload' = NoReload
    /\ last' = [op |-> "parse_section", rcode |-> FALSE]
    /\ UNCHANGED crashed

\* One turn of the loop: the next client section is built, checked against
\* the listener and added to the new list.
ParseClient ==
    /\ ~crashed
    /\ reload.pc = "loop"
    /\ reload.cs <= Len(reload.section.clients)
    /\ LET R == client_afrom_cs(hs_proto, reload.section.clients[reload.cs],
                                reload.server_cs)
           c == Len(client) + 1
           S1 == [State EXCEPT !.client = Append(client, R.c)]
       IN  /\ hs_proto' = R.hs_proto
           /\ IF ~R.ok
              THEN ParseError(State) /\ UNCHANGED home
              ELSE IF reload.tls_required # R.c.tls_required
              THEN /\ ParseError([S1 EXCEPT !.client[c].st = "freed"])
                   /\ home' = Append(home, "")
              ELSE \E A \in client_add(S1, reload.clients, c) :
                     IF ~A.rcode
                     THEN /\ ParseError([A.S EXCEPT !.client[c].st = "freed"])
                          /\ home' = Append(home, "")
                     ELSE \/ /\ SetState(A.S)
                             /\ home' = Append(home,
                                    ScopeOf(A.S, reload.clients, A.S.client[c]))
                             /\ reload' = [reload EXCEPT !.cs = @ + 1]
                             /\ last' = [op |-> "parse_client", rcode |-> TRUE]
                             /\ UNCHANGED <<freed, crashed>>
                          \/ /\ Dangling
                             /\ A.S.client[c].st = "added"
                             /\ Crash
    /\ UNCHANGED <<network, cnt, thr>>

\* After the loop: the list is attached to the section and, for the root
\* section, becomes the global list.  cf_data_add refuses a section that
\* carries a list already.
ParseEnd ==
    /\ ~crashed
    /\ reload.pc = "loop"
    /\ reload.cs > Len(reload.section.clients)
    /\ IF cf_data_find(reload.section) # NULL
       THEN ParseError(State)
       ELSE /\ cf_data' = IF reload.section.name1 = "server"
                          THEN [cf_data EXCEPT ![reload.section.name2] =
                                                    reload.clients]
                          ELSE cf_data
            /\ root_clients' = IF reload.global THEN reload.clients
                               ELSE root_clients
            /\ reload' = NoReload
            /\ last' = [op |-> "parse_section", rcode |-> TRUE]
            /\ UNCHANGED <<client, lists, tree_num, tree_num_max, freed>>
    /\ UNCHANGED <<crashed, home, hs_proto, network, cnt, thr>>

\* The configuration is loaded and reloaded, and the sections of the
\* virtual servers are parsed.
NextReload ==
    \/ \E sec \in ParseSections, tls \in BOOLEAN : ParseBegin(sec, tls)
    \/ ParseClient
    \/ ParseEnd

SpecReload == Init /\ [][NextReload]_vars

\* ------------------------------------------------------- client_list_free
\* The handles a caller can still pass: NULL and the lists not freed.
LiveHandles(S, gone) == (0..Len(S.lists)) \ gone

\* client_list_free(): TALLOC_FREE(root_clients) frees the global list and
\* sets the pointer to NULL.
client_list_free(S) ==
    IF S.root_clients = NULL THEN S
    ELSE [talloc_free_clients(S, S.root_clients) EXCEPT !.root_clients = NULL]

ClientListFree ==
    /\ ~crashed
    /\ SetState(client_list_free(State))
    /\ freed' = IF root_clients = NULL THEN freed ELSE freed \cup {root_clients}
    /\ last' = [op |-> "list_free", rcode |-> TRUE]
    /\ UNCHANGED <<crashed, home, hs_proto, network, cnt, thr, reload>>

\* client_add and client_delete on a number index that was freed with its
\* list: the call may end the process.  The calls themselves are
\* ClientAdd and ClientDelete, for the case that the freed memory still
\* holds what it held.
UseAfterFree ==
    /\ ~crashed
    /\ Dangling
    /\ \E c \in DOMAIN client : client[c].st # "freed"
    /\ Crash
    /\ UNCHANGED <<hs_proto, network, cnt, thr>>

\* The records handed to client_add where registries are torn down.
TeardownTemplates ==
    {Built(Host4, IPPROTO_UDP, "s1", "srv1"), Built(Host4, IPPROTO_UDP, "s1", NoStr),
     Built(Net4, IPPROTO_IP, "s1", NoStr)}

\* Inserts, deletes and the teardown of the global list.
NextTeardown ==
    \/ \E t \in TeardownTemplates : ClientNew(t)
    \/ \E c \in DOMAIN client, l \in LiveHandles(State, freed) : ClientAdd(l, c)
    \/ \E c \in DOMAIN client, l \in LiveHandles(State, freed) : ClientDelete(l, c)
    \/ ClientListFree
    \/ UseAfterFree

SpecTeardown == Init /\ [][NextTeardown]_vars

\* ------------------------------------------------- what the claims speak of
\* The request addresses and transports the lookups are asked about.
Q(af, addr) == Ip(af, addr, Width(af))

QueryAddrs ==
    {Q(AF_INET, V4(10, 1, 2, 3)), Q(AF_INET, V4(10, 1, 2, 4)),
     Q(AF_INET, V4(192, 0, 2, 1)), Q(AF_INET6, V6(32, 1, 13, 184, 1)),
     Q(AF_INET6, V6(0, 0, 0, 0, 1))}

QueryProtos == {IPPROTO_UDP, IPPROTO_TCP}

Handles(S) == 0..Len(S.lists)

Deref(S, l) == IF l = NULL THEN S.root_clients ELSE l

\* The records linked into the prefix trees of list l.
Stored(S, l) ==
    IF l = NULL THEN {}
    ELSE UNION {S.lists[l].trees[p] : p \in DOMAIN S.lists[l].trees}

\* The number of low bits of byte i that lie outside a prefix.
HostBits(i, prefix) ==
    IF 8 * i <= prefix THEN 0 ELSE IF 8 * (i - 1) >= prefix THEN 8 ELSE 8 * i - prefix

\* The entry's prefix contains the address q.
Covers(e, q) ==
    /\ e.ipaddr.af = q.af
    /\ \A i \in DOMAIN q.addr :
         LET k == Pow2(HostBits(i, e.ipaddr.prefix))
         IN  (q.addr[i] \div k) * k = e.ipaddr.addr[i]

\* The entry matches the query (address, transport).
EntryMatches(e, q, proto) ==
    Covers(e, q) /\ (e.proto = IPPROTO_IP \/ e.proto = proto)

\* C1: whatever client_find returns for a request address and transport, no
\* entry stored in that list matches the request with a longer prefix.
C1_LongestPrefixMatch ==
    \A l \in Handles(State), q \in QueryAddrs, pr \in QueryProtos :
        \A x \in client_find(State, l, q, pr) :
            x # NULL =>
                \A e \in Stored(State, Deref(State, l)) :
                    EntryMatches(client[e], q, pr)
                        => client[e].ipaddr.prefix <= client[x].ipaddr.prefix

\* 10.0.0.0/8 and 10.1.2.3/32 are stored in one list: 10.1.2.3 resolves to
\* the /32 entry and 10.1.2.4 to the /8 entry.
C1_Witness ==
    \E l \in 1..Len(lists) :
        \E h, n \in Stored(State, l) :
            /\ client[h].ipaddr = Host4
            /\ client[n].ipaddr = Net4
            /\ client[h].proto = IPPROTO_UDP
            /\ client_find(State, l, Q(AF_INET, V4(10, 1, 2, 3)), IPPROTO_UDP) = {h}
            /\ client_find(State, l, Q(AF_INET, V4(10, 1, 2, 4)), IPPROTO_UDP) = {n}

\* C2: client_find returns a record exactly when the list stores an entry
\* of the address's family whose prefix contains the address and whose
\* transport is the wildcard or the request's; the record returned is such
\* an entry of that list.
C2_NoFalseMatchNoFalseMiss ==
    \A l \in Handles(State), q \in QueryAddrs, pr \in QueryProtos :
        LET res == client_find(State, l, q, pr)
            st == Stored(State, Deref(State, l))
        IN  /\ (NULL \notin res) <=> (\E e \in st : EntryMatches(client[e], q, pr))
            /\ \A x \in res \ {NULL} : x \in st /\ EntryMatches(client[x], q, pr)

\* After a delete a list still answers one request and misses another.
C2_Witness ==
    /\ last.op = "delete"
    /\ \E l \in 1..Len(lists), q1, q2 \in QueryAddrs, pr \in QueryProtos :
        /\ client_find(State, l, q1, pr) = {NULL}
        /\ NULL \notin client_find(State, l, q2, pr)
        /\ \E c \in DOMAIN client : client[c].st = "added" /\ c \notin Stored(State, l)

\* C7: an entry with the wildcard transport at a host address is what every
\* lookup of that address returns, under UDP and under TCP; an entry with a
\* concrete transport is what the lookup under its own transport returns,
\* and no lookup under the other transport returns it.
C7_TransportMatching ==
    \A l \in 1..Len(lists) : \A e \in Stored(State, l) :
        LET r == client[e]
        IN  r.ipaddr.prefix = Width(r.ipaddr.af) =>
              \A pr \in QueryProtos :
                LET res == client_find(State, l, r.ipaddr, pr)
                IN  IF r.proto = IPPROTO_IP \/ r.proto = pr
                    THEN res = {e}
                    ELSE e \notin res

\* A list holds a UDP entry and a TCP entry at one host address.
C7_Witness ==
    \E l \in 1..Len(lists) : \E e, f \in Stored(State, l) :
        /\ client[e].ipaddr = Host4 /\ client[f].ipaddr = Host4
        /\ client[e].proto = IPPROTO_UDP /\ client[f].proto = IPPROTO_TCP
        /\ client_find(State, l, Host4, IPPROTO_TCP) = {f}

\* C10: a record added under a virtual server's scope is never returned by
\* client_find on the default list, and a record added under the default
\* scope is never returned by client_find on a virtual server's list.
C10_ScopeIsolation ==
    \A c \in DOMAIN client : client[c].st = "added" =>
        \A q \in QueryAddrs \cup {client[c].ipaddr}, pr \in QueryProtos :
            /\ home[c] \in VirtualServers =>
                 /\ c \notin client_find(State, NULL, q, pr)
                 /\ c \notin client_find(State, root_clients, q, pr)
            /\ home[c] = "default" =>
                 \A s \in VirtualServers :
                    cf_data[s] # NULL => c \notin client_find(State, cf_data[s], q, pr)

\* The default list and a server's list each hold a record for the same
\* host address, and each list answers with its own.
C10_Witness ==
    \E c, d \in DOMAIN client :
        /\ home[c] = "srv1" /\ home[d] = "default"
        /\ client[c].st = "added" /\ client[d].st = "added"
        /\ client[c].ipaddr = Host4 /\ client[d].ipaddr = Host4
        /\ client_find(State, cf_data["srv1"], Host4, IPPROTO_UDP) = {c}
        /\ client_find(State, NULL, Host4, IPPROTO_UDP) = {d}

\* The list a call client_add(clients, r) is meant for: the list given, or
\* the list of the record's virtual server when that server has listeners,
\* or the default list; NULL when there is none (yet).
TargetOf(S, clients, r) ==
    IF clients # NULL THEN clients
    ELSE IF r.server \in ListenServers THEN S.cf_data[r.server]
    ELSE IF r.server = NoStr \/ r.server \in VirtualServers THEN S.root_clients
    ELSE NULL

ZeroFull(ip) ==
    /\ \A i \in DOMAIN ip.addr : ip.addr[i] = 0
    /\ ip.prefix = Width(ip.af)

\* The list whose trees hold record c.
ListOf(S, c) == CHOOSE l \in 1..Len(S.lists) : c \in Stored(S, l)

\* C3: a record with an all-zero address and a full-width prefix that is
\* inserted ends up in the tree of prefix 0 with the watermark at 0, answers
\* every request of its family and transport that no longer prefix answers,
\* and the call does what the same call with prefix 0 would have done; any
\* other record is stored under its own prefix.
C3_WildcardNormalization ==
    [][\A l \in Handles(State), c \in DOMAIN client :
        (ClientAdd(l, c) /\ client'[c].st = "added") =>
            LET r == client[c]
                r2 == client'[c]
                t == ListOf(State', c)
            IN  IF ZeroFull(r.ipaddr)
                THEN /\ r2.ipaddr.prefix = 0
                     /\ c \in lists'[t].trees[0]
                     /\ lists'[t].min_prefix = 0
                     /\ \A q \in QueryAddrs, pr \in QueryProtos :
                          (q.af = r.ipaddr.af /\ (r.proto = IPPROTO_IP \/ r.proto = pr)) =>
                            \A x \in client_find(State', t, q, pr) :
                                \/ x = c
                                \/ /\ x # NULL
                                   /\ client'[x].ipaddr.prefix > 0
                                   /\ EntryMatches(client'[x], q, pr)
                     /\ client_add([State EXCEPT !.client[c].ipaddr.prefix = 0], l, c)
                            = client_add(State, l, c)
                ELSE /\ r2.ipaddr = r.ipaddr
                     /\ c \in lists'[t].trees[r.ipaddr.prefix]
    ]_vars

\* An all-zero record sits in the tree of prefix 0 of a list that also
\* holds a host entry; a request for another host resolves to the former.
C3_Witness ==
    \E l \in 1..Len(lists) : \E c, h \in Stored(State, l) :
        /\ client[c].ipaddr = [Any4 EXCEPT !.prefix = 0]
        /\ client[h].ipaddr = Host4
        /\ 0 \in DOMAIN lists[l].trees /\ c \in lists[l].trees[0]
        /\ lists[l].min_prefix = 0
        /\ client_find(State, l, Q(AF_INET, V4(192, 0, 2, 1)), IPPROTO_UDP) = {c}

\* Stored entry e and new record r are the same client, transport included.
Identical(e, r) ==
    /\ e.ipaddr = r.ipaddr /\ e.proto = r.proto
    /\ e.longname = r.longname /\ e.secret = r.secret
    /\ e.shortname = r.shortname /\ e.nas_type = r.nas_type
    /\ e.server = r.server
    /\ e.message_authenticator = r.message_authenticator

\* The keys of the two records are equal for storage.
KeyEqual(e, r) ==
    /\ e.ipaddr = r.ipaddr
    /\ (e.proto = r.proto \/ e.proto = IPPROTO_IP \/ r.proto = IPPROTO_IP)

Differs(e, r) ==
    \/ e.longname # r.longname \/ e.secret # r.secret
    \/ e.shortname # r.shortname \/ e.nas_type # r.nas_type
    \/ e.server # r.server
    \/ e.message_authenticator # r.message_authenticator

\* The record as client_add stores it: all-zero with full prefix is prefix 0.
Normal(r) == IF ZeroFull(r.ipaddr) THEN [r EXCEPT !.ipaddr.prefix = 0] ELSE r

\* C4: client_add of a record identical to one stored in the list it is
\* meant for returns true and leaves the lists, the number index and the
\* next number as they were; the list holds one entry for that key.
C4_IdempotentReinsertion ==
    [][\A l \in Handles(State), c \in DOMAIN client :
        LET r == Normal(client[c])
            t == TargetOf(State, l, r)
        IN  (/\ ClientAdd(l, c)
             /\ t # NULL
             /\ \E e \in Stored(State, t) : Identical(client[e], r)) =>
                /\ last'.rcode
                /\ lists' = lists
                /\ tree_num' = tree_num
                /\ tree_num_max' = tree_num_max
                /\ root_clients' = root_clients /\ cf_data' = cf_data
                /\ Cardinality({e \in Stored(State', t) : KeyEqual(client'[e], r)}) = 1
    ]_vars

\* The last call merged a record into an identical stored one.
C4_Witness ==
    /\ last.op = "add" /\ last.rcode
    /\ \E c \in DOMAIN client : \E l \in 1..Len(lists) : \E e \in Stored(State, l) :
        /\ client[c].st = "freed"
        /\ Identical(client[e], client[c])
        /\ tree_num_max = Cardinality({d \in DOMAIN client : client[d].st = "added"})

\* C5: client_add of a record whose key equals the key of an entry stored
\* in the list it is meant for, and which differs from that entry in a
\* compared field, returns false and leaves the lists, the number index,
\* the next number and the results of the lookups as they were.
C5_ConflictLeavesUnchanged ==
    [][\A l \in Handles(State), c \in DOMAIN client :
        LET r == Normal(client[c])
            t == TargetOf(State, l, r)
        IN  (/\ ClientAdd(l, c)
             /\ t # NULL
             /\ \E e \in Stored(State, t) :
                    KeyEqual(client[e], r) /\ Differs(client[e], r)) =>
                /\ ~last'.rcode
                /\ lists' = lists
                /\ tree_num' = tree_num
                /\ tree_num_max' = tree_num_max
                /\ \A q \in QueryAddrs, pr \in QueryProtos :
                     client_find(State', t, q, pr) = client_find(State, t, q, pr)
    ]_vars

\* The list of a scope.
ListOfScope(S, h) ==
    IF h = "default" THEN S.root_clients
    ELSE IF h \in VirtualServers THEN S.cf_data[h]
    ELSE NULL

\* What a successful client_add of record c promises: a lookup of c's
\* address bounded by c's prefix, under every transport c's transport
\* admits, returns an entry with that address and prefix.
Promise(S, c, t) ==
    LET r == S.client[c]
    IN  \A pr \in QueryProtos :
            (r.proto = IPPROTO_IP \/ r.proto = pr) =>
                \A x \in client_find(S, t, r.ipaddr, pr) :
                    /\ x # NULL
                    /\ S.client[x].ipaddr = r.ipaddr

\* C6: once client_add returned true for a record, merged duplicates
\* included, the promise holds, and it keeps holding over every step that
\* is not a delete.
C6_InsertPostcondition ==
    [][\A c \in DOMAIN client' :
        (/\ client'[c].st \in {"added", "freed"}
         /\ last'.op # "delete"
         /\ \/ client[c].st = "built"
            \/ Promise(State, c, ListOfScope(State, home[c]))) =>
                Promise(State', c, ListOfScope(State', home'[c]))
    ]_vars

\* C8: an inserted record gets the next number; client_findbynumber of the
\* number of a record that is still stored returns that record, whichever
\* list is passed; a delete changes neither the number nor the by-number
\* result of another record; no two records were ever given one number.
C8_NumberingStability ==
    [][/\ \A l \in Handles(State), c \in DOMAIN client :
            (ClientAdd(l, c) /\ client'[c].st = "added") =>
                /\ client'[c].number = tree_num_max
                /\ tree_num_max' = tree_num_max + 1
       /\ \A c \in DOMAIN client' :
            (/\ client'[c].st = "added"
             /\ \E l \in 1..Len(lists') : c \in Stored(State', l)) =>
                \A l \in 1..Len(lists') :
                    client_findbynumber(State', l, client'[c].number) = {c}
       /\ \A l \in Handles(State), c \in DOMAIN client :
            (ClientDelete(l, c) /\ ~crashed') =>
                \A d \in DOMAIN client \ {c} :
                    /\ client'[d].number = client[d].number
                    /\ \A h \in 1..Len(lists) :
                         client_findbynumber(State', h, client[d].number)
                            = client_findbynumber(State, h, client[d].number)
       /\ \A c, d \in DOMAIN client' :
            (c # d /\ client'[c].st = "added" /\ client'[d].st = "added") =>
                client'[c].number # client'[d].number
    ]_vars

\* C9: client_delete of a record stored in the list unlinks that record
\* from its prefix tree and from the number index and changes nothing
\* else; client_delete of a record that is not stored in the list changes
\* no tree and not the number index.
C9_DeleteOnlyTheRecord ==
    [][\A l \in Handles(State), c \in DOMAIN client :
        (ClientDelete(l, c) /\ ~crashed') =>
            LET t == Deref(State, l)
                p == client[c].ipaddr.prefix
            IN  /\ client' = client
                /\ tree_num_max' = tree_num_max
                /\ IF c \in Stored(State, t)
                   THEN /\ lists' = [lists EXCEPT ![t].trees[p] = @ \ {c}]
                        /\ tree_num' = [tree_num EXCEPT !.nodes = @ \ {c}]
                   ELSE /\ lists' = lists
                        /\ tree_num' = tree_num
    ]_vars

\* The lists other than t are as they were.
OthersUnchanged(t) ==
    \A k \in 1..Len(lists) : k # t => lists'[k] = lists[k]

\* The list t after the call: it existed and no list was created, or it is
\* the one list created by the call, named `name`, holding nothing but the
\* tree of the new record's prefix and with the watermark lowered from 128.
UsedOrCreated(t, existing, name, c) ==
    IF existing # NULL
    THEN t = existing /\ Len(lists') = Len(lists)
    ELSE /\ t = Len(lists) + 1
         /\ Len(lists') = Len(lists) + 1
         /\ lists'[t].name = name
         /\ LET p == client'[c].ipaddr.prefix
            IN  /\ lists'[t].trees = [q \in {p} |-> {c}]
                /\ lists'[t].min_prefix = IF p < 128 THEN p ELSE 128

\* C11: client_add with a list given uses that list, whatever server the
\* record names.  With no list given: a record naming a server that does
\* not resolve makes the call fail with no list changed; a record naming a
\* server with a listen section goes to that server's list, created and
\* attached on first use and reused afterwards; a record naming a server
\* without a listen section, or no server, goes to the default list,
\* created on first use with watermark 128.
C11_ScopeResolution ==
    [][\A l \in Handles(State), c \in DOMAIN client :
        ClientAdd(l, c) =>
            LET sv == client[c].server
                added == client'[c].st = "added"
            IN  IF l # NULL
                THEN /\ Len(lists') = Len(lists) /\ OthersUnchanged(l)
                     /\ root_clients' = root_clients /\ cf_data' = cf_data
                     /\ added => c \in Stored(State', l)
                ELSE IF sv # NoStr /\ sv \notin VirtualServers
                THEN /\ ~last'.rcode
                     /\ lists' = lists /\ root_clients' = root_clients
                     /\ cf_data' = cf_data /\ tree_num' = tree_num
                     /\ tree_num_max' = tree_num_max
                ELSE IF sv \in ListenServers
                THEN LET t == cf_data'[sv]
                     IN  /\ t # NULL /\ OthersUnchanged(t)
                         /\ root_clients' = root_clients
                         /\ cf_data' = [cf_data EXCEPT ![sv] = t]
                         /\ UsedOrCreated(t, cf_data[sv], sv, c)
                         /\ added => c \in Stored(State', t)
                ELSE LET t == root_clients'
                     IN  /\ t # NULL /\ OthersUnchanged(t)
                         /\ cf_data' = cf_data
                         /\ UsedOrCreated(t, root_clients, "root", c)
                         /\ added => c \in Stored(State', t)
    ]_vars

\* A record naming srv1 is stored in srv1's list, a record naming no
\* server in the default list, and a second record naming srv1, added with
\* the default list given, is stored in the default list.
C11_Witness ==
    /\ root_clients # NULL /\ cf_data["srv1"] # NULL
    /\ \E a \in Stored(State, cf_data["srv1"]) : client[a].server = "srv1"
    /\ \E b, d \in Stored(State, root_clients) :
            client[b].server = NoStr /\ client[d].server = "srv1"

\* The address and prefix the address attribute of a request describes: an
\* address attribute is a host, a prefix attribute is that prefix.
DescribedIp(rq) ==
    IF rq.kind = "addr" THEN Ip(rq.ip.af, rq.ip.addr, Width(rq.ip.af))
    ELSE [af |-> rq.ip.af,
          addr |-> [i \in DOMAIN rq.ip.addr |->
                      LET k == Pow2(HostBits(i, rq.ip.prefix))
                      IN  (rq.ip.addr[i] \div k) * k],
          prefix |-> rq.ip.prefix]

\* The address ip lies in the network net.
InNetwork(ip, net) ==
    /\ ip.af = net.af
    /\ \A i \in DOMAIN ip.addr :
         LET k == Pow2(HostBits(i, net.prefix))
         IN  (ip.addr[i] \div k) * k = net.addr[i]

\* C12: client_afrom_request returns no client when the family of the
\* synthesized client differs from the family of the network the request
\* arrived on, or its prefix is shorter than the network's, or its address
\* masked to the network's prefix is not the network's address; a client
\* it returns passes all three checks and is the client described.
C12_ProvisioningBoundary ==
    [][\A rq \in Requests :
        (ClientFromRequest(rq) /\ rq.ip # NoIp) =>
            LET d == DescribedIp(rq)
                n == rq.network
                bad == \/ d.af # n.af
                       \/ d.prefix < n.prefix
                       \/ ~InNetwork(d, n)
            IN  /\ bad => (~last'.rcode /\ client' = client /\ network' = network)
                /\ last'.rcode =>
                     /\ ~bad
                     /\ Len(client') = Len(client) + 1
                     /\ client'[Len(client')].ipaddr = d
                     /\ network'[Len(client')] = n
    ]_vars

\* A request from 10.0.0.0/8 was refused and the records built so far are
\* a host and a /16 inside 10.0.0.0/8.
C12_Witness ==
    /\ last.op = "afrom_request" /\ ~last.rcode
    /\ Len(client) = 2
    /\ client[1].ipaddr = Host4 /\ network[1] = Net4
    /\ client[2].ipaddr = Ip(AF_INET, V4(10, 1, 0, 0), 16) /\ network[2] = Net4

\* C13: a record that client_afrom_request accepted for a request from
\* network N and that client_add stored has a prefix at least as long as
\* N's and an address inside N, and every address a lookup resolves to it
\* lies inside N.
C13_NoScopeBroadening ==
    \A c \in DOMAIN network :
        (client[c].st = "added") =>
            /\ client[c].ipaddr.prefix >= network[c].prefix
            /\ InNetwork(client[c].ipaddr, network[c])
            /\ \A l \in Handles(State), q \in QueryAddrs, pr \in QueryProtos :
                 c \in client_find(State, l, q, pr) => InNetwork(q, network[c])

\* Record x is completely inserted: linked into a prefix tree of a list
\* whose watermark reaches its prefix, and found in the number index under
\* the number it holds.
Complete(S, x) ==
    /\ \E l \in 1..Len(S.lists) :
            /\ x \in Stored(S, l)
            /\ S.lists[l].min_prefix <= S.client[x].ipaddr.prefix
    /\ x \in S.tree_num.nodes
    /\ \A l \in 1..Len(S.lists) :
            client_findbynumber(S, l, S.client[x].number) = {x}

\* C14: with client_add running in other threads, whatever record
\* client_find or client_findbynumber returns is completely inserted: it
\* is in its prefix tree, it has its number, it is in the number index and
\* the watermark of its list reaches it.
C14_AtomicInsertion ==
    /\ \A l \in Handles(State), q \in QueryAddrs, pr \in QueryProtos :
            \A x \in client_find(State, l, q, pr) \ {NULL} : Complete(State, x)
    /\ \A l \in Handles(State), n \in 0..MaxClients :
            \A x \in client_findbynumber(State, l, n) \ {NULL} : Complete(State, x)

\* C15: with client_add calls interleaved, no two records that were added
\* hold the same number, and when no call is running the next number is
\* the count of the records that were numbered.
C15_UniqueNumbers ==
    /\ \A c, d \in DOMAIN client :
            (c # d /\ client[c].st = "added" /\ client[d].st = "added") =>
                client[c].number # client[d].number
    /\ (\A t \in Threads : thr[t].pc = "idle") =>
            tree_num_max = Cardinality({c \in DOMAIN client : client[c].st = "added"})


\* C16: whole-registry replacement is a single swap.  In every step of
\* client_list_parse_section that the process survives, the list behind
\* the default handle and the records stored in it stay as they are; the
\* list being filled is never
\* the one behind the default handle; the handle changes in one step only,
\* the successful end of the call on a root section, when every client
\* section of it has its record in the new list; in every other step
\* client_find through the default handle answers as before.
C16_SingleSwap ==
    [][((reload.pc = "loop" \/ reload'.pc = "loop") /\ ~crashed') =>
        LET swap == /\ reload.pc = "loop"
                    /\ reload'.pc = "idle"
                    /\ last'.rcode
                    /\ reload.global
            sec == reload.section
        IN  /\ root_clients # NULL =>
                /\ lists'[root_clients] = lists[root_clients]
                /\ root_clients \notin freed'
                /\ \A i \in Stored(State, root_clients) : client'[i] = client[i]
            /\ reload.pc = "loop" => reload.clients # root_clients
            /\ IF swap
               THEN /\ root_clients' = reload.clients
                    /\ reload.cs > Len(sec.clients)
                    /\ \A k \in DOMAIN sec.clients :
                         \E i \in Stored(State', reload.clients) :
                            /\ client'[i].st = "added"
                            /\ client'[i].ipaddr = sec.clients[k].ipaddr
               ELSE /\ root_clients' = root_clients
                    /\ \A q \in QueryAddrs, pr \in QueryProtos :
                         client_find(State', NULL, q, pr)
                            = client_find(State, NULL, q, pr)]_vars

\* A reload has replaced a registry that holds a client by one that holds
\* two, and the old registry is still there.
C16_Witness ==
    /\ reload.pc = "idle"
    /\ last = [op |-> "parse_section", rcode |-> TRUE]
    /\ root_clients # NULL
    /\ Cardinality(Stored(State, root_clients)) = 2
    /\ \E l \in 1..Len(lists) :
        /\ l # root_clients
        /\ l \notin freed
        /\ lists[l].name = "main"
        /\ Stored(State, l) # {}
        /\ \A i \in Stored(State, l) : client[i].st = "added"

\* Two records have the same storage key: family, address and prefix
\* length agree, and the transports are equal or one is the wildcard.
SameKey(a, b) ==
    /\ a.ipaddr.af = b.ipaddr.af
    /\ a.ipaddr.addr = b.ipaddr.addr
    /\ a.ipaddr.prefix = b.ipaddr.prefix
    /\ (a.proto = b.proto \/ a.proto = IPPROTO_IP \/ b.proto = IPPROTO_IP)

\* C17: key uniqueness.  In every list, every entry of the tree for prefix
\* p has prefix length p, and no two distinct entries of one tree have the
\* same storage key.
C17_KeyUniqueness ==
    \A l \in 1..Len(lists) : \A p \in DOMAIN lists[l].trees :
        /\ \A i \in lists[l].trees[p] : client[i].ipaddr.prefix = p
        /\ \A i, j \in lists[l].trees[p] :
                i # j => ~SameKey(client[i], client[j])

\* A tree holds the UDP and the TCP entry of one address, and a wildcard
\* record for that address, equal to both, was refused.
C17_Witness ==
    /\ last = [op |-> "add", rcode |-> FALSE]
    /\ \E l \in 1..Len(lists) :
        /\ 32 \in DOMAIN lists[l].trees
        /\ Cardinality(lists[l].trees[32]) = 2
        /\ \E c \in DOMAIN client :
            /\ client[c].st = "built"
            /\ client[c].proto = IPPROTO_IP
            /\ \A i \in lists[l].trees[32] : SameKey(client[i], client[c])

\* The prefix lengths of the entries stored in list l of state S.
StoredPrefixes(S, l) == {S.client[i].ipaddr.prefix : i \in Stored(S, l)}

\* C18: the watermark.  In every step min_prefix of a list that existed
\* does not increase, and is unchanged when the step is a client_delete;
\* a list created in the step has 128 or, when the step also inserted into
\* it, the prefix length of that entry; and after the step min_prefix of
\* every list is at most the prefix length of every entry stored in it.
C18_Watermark ==
    [][/\ \A l \in 1..Len(lists') :
            /\ \A p \in StoredPrefixes(State', l) : lists'[l].min_prefix <= p
            /\ l <= Len(lists) =>
                 /\ lists'[l].min_prefix <= lists[l].min_prefix
                 /\ last'.op = "delete" =>
                        lists'[l].min_prefix = lists[l].min_prefix
            /\ l > Len(lists) =>
                 \/ /\ Stored(State', l) = {}
                    /\ lists'[l].min_prefix = InitMinPrefix
                 \/ /\ Cardinality(Stored(State', l)) = 1
                    /\ {lists'[l].min_prefix} = StoredPrefixes(State', l)
       /\ \A l \in 1..Len(lists) :
            \A p \in StoredPrefixes(State, l) : lists[l].min_prefix <= p]_vars

\* A client_delete took the /8 entry out of a list that still holds a /32
\* entry: the watermark stays at 8, below the only populated tree.
C18_Witness ==
    /\ last = [op |-> "delete", rcode |-> TRUE]
    /\ \E l \in 1..Len(lists) :
        /\ lists[l].min_prefix = 8
        /\ StoredPrefixes(State, l) = {32}
        /\ 8 \in DOMAIN lists[l].trees
        /\ lists[l].trees[8] = {}

\* Query addresses that carry a prefix length: shorter than the width of
\* the family, and beyond it.
PrefixQueries ==
    {Ip(AF_INET, V4(10, 1, 2, 3), b) : b \in {0, 16, 33}}
    \cup {Ip(AF_INET6, V6(32, 1, 13, 184, 1), b) : b \in {32, 200}}

\* C19: the prefix bound of a lookup.  With b the prefix length the query
\* carries, cut to the width of the family: client_find returns no entry
\* longer than b; among the stored entries that match the query and whose
\* prefix length lies between the watermark and b it returns one of the
\* longest, and NULL when there is none; and a query whose prefix length
\* is the width or more is answered like the query of full width.
C19_LookupPrefixBound ==
    \A l \in Handles(State), q \in PrefixQueries, pr \in QueryProtos :
        LET w == Width(q.af)
            b == IF q.prefix < w THEN q.prefix ELSE w
            L == Deref(State, l)
            cand == {e \in Stored(State, L) :
                        /\ EntryMatches(client[e], q, pr)
                        /\ client[e].ipaddr.prefix <= b
                        /\ client[e].ipaddr.prefix >= lists[L].min_prefix}
            best == {e \in cand : \A f \in cand :
                        client[f].ipaddr.prefix <= client[e].ipaddr.prefix}
            R == client_find(State, l, q, pr)
        IN  /\ \A x \in R : x # NULL => client[x].ipaddr.prefix <= b
            /\ IF cand = {} THEN R = {NULL} ELSE R # {} /\ R \subseteq best
            /\ q.prefix >= w =>
                  R = client_find(State, l, [q EXCEPT !.prefix = w], pr)

\* 10.0.0.0/8 and 10.1.2.3/32 are stored in the default list: the query
\* 10.1.2.3 with prefix length 16 resolves to the /8 entry, and with
\* prefix length 33 to the /32 entry.
C19_Witness ==
    /\ root_clients # NULL
    /\ \E x, y \in Stored(State, root_clients) :
        /\ client[x].ipaddr = Net4
        /\ client[y].ipaddr = Host4
        /\ client[y].proto = IPPROTO_UDP
        /\ client_find(State, NULL, Ip(AF_INET, V4(10, 1, 2, 3), 16),
                       IPPROTO_UDP) = {x}
        /\ client_find(State, NULL, Ip(AF_INET, V4(10, 1, 2, 3), 33),
                       IPPROTO_UDP) = {y}

\* The transport and the TLS requirement a declared transport string
\* stands for, `wild` being the string of the wildcard; no string declared
\* is UDP.
Declared(wild) ==
    [str \in {NoStr, "udp", "tcp", "tls", "radsec", wild} |->
        IF str = "tcp" THEN [proto |-> IPPROTO_TCP, tls_required |-> FALSE]
        ELSE IF str \in {"tls", "radsec"}
        THEN [proto |-> IPPROTO_TCP, tls_required |-> TRUE]
        ELSE IF str = wild THEN [proto |-> IPPROTO_IP, tls_required |-> FALSE]
        ELSE [proto |-> IPPROTO_UDP, tls_required |-> FALSE]]

\* A step of client_afrom_cs keeps the rule of the transport strings: a
\* string that is not declared gives no client; a client that is returned
\* has the transport and TLS requirement its string stands for; a section
\* with nothing else wrong and a declared string gives a client; and the
\* remembered string is cleared whatever the outcome.
TransportRule(wild) ==
    \A cs \in ConfSections, sv \in ServerSections :
        ClientFromCs(cs, sv) =>
            /\ hs_proto' = NoStr
            /\ cs.proto \notin DOMAIN Declared(wild) =>
                    ~last'.rcode /\ client' = client
            /\ last'.rcode =>
                    /\ Len(client') = Len(client) + 1
                    /\ cs.proto \in DOMAIN Declared(wild)
                    /\ client'[Len(client')].proto = Declared(wild)[cs.proto].proto
                    /\ client'[Len(client')].tls_required
                            = Declared(wild)[cs.proto].tls_required
            /\ (cs = Section(cs.proto, "s1") /\ cs.proto \in DOMAIN Declared(wild))
                    => last'.rcode

\* C20 as stated: the declared transport strings are udp, tcp, tls, radsec
\* and any, any standing for the wildcard; every other string gives no
\* client; the remembered string is cleared after either outcome.
C20_TransportStrings == [][TransportRule("any")]_vars

\* C20 as amended: the string of the wildcard is "*", and "any" is one of
\* the strings that give no client.
C20_TransportStringsStar == [][TransportRule("*")]_vars

\* A wildcard client and a TLS client were built, and the call that
\* followed was refused, the remembered string being cleared.
C20_Witness ==
    /\ last = [op |-> "afrom_cs", rcode |-> FALSE]
    /\ hs_proto = NoStr
    /\ \E i, j \in DOMAIN client :
        /\ client[i].proto = IPPROTO_IP
        /\ client[j].proto = IPPROTO_TCP
        /\ client[j].tls_required

\* The secret is absent or empty.
NoSecret(secret) == secret = NoStr \/ secret = ""

\* C21: the secret rule of the builder.  In every step of client_afrom_cs:
\* a client that is returned with an absent or empty secret was declared
\* as DHCP; a client that is returned for a section without a secret and
\* requires TLS has the secret "radsec"; and a section without a secret
\* that is neither TLS-required nor DHCP gives no record.
C21_SecretRule ==
    [][\A cs \in ConfSections, sv \in ServerSections :
        ClientFromCs(cs, sv) =>
            LET r == client'[Len(client')]
            IN  /\ (last'.rcode /\ NoSecret(r.secret)) => cs.dhcp = "yes"
                /\ (last'.rcode /\ NoSecret(cs.secret) /\ r.tls_required)
                        => r.secret = "radsec"
                /\ (/\ NoSecret(cs.secret)
                    /\ cs.proto \notin {"tls", "radsec"}
                    /\ cs.dhcp # "yes")
                        => ~last'.rcode /\ client' = client]_vars

\* C22: the server scope of the builder.  In every step of client_afrom_cs:
\* a section that names a virtual server inside a server section gives no
\* record; one that names a server outside any server section gives no
\* record unless the name resolves, and then the record has that server;
\* one that names none inside a server section gives a record of the
\* enclosing server; one that names none outside gives a record without a
\* server; and a section with nothing else wrong is built in the three
\* cases that allow it.
C22_ServerScope ==
    [][\A cs \in ConfSections, sv \in ServerSections :
        ClientFromCs(cs, sv) =>
            LET r == client'[Len(client')]
                named == cs.virtual_server # NoStr
                inside == sv # NoStr
                sound == /\ cs = [Section(NoStr, "s1") EXCEPT
                                    !.virtual_server = cs.virtual_server]
                         /\ ~(named /\ inside)
                         /\ named => cs.virtual_server \in VirtualServers
            IN  /\ (named /\ inside) => ~last'.rcode /\ client' = client
                /\ (named /\ ~inside /\ cs.virtual_server \notin VirtualServers)
                        => ~last'.rcode /\ client' = client
                /\ (last'.rcode /\ named) => r.server = cs.virtual_server
                /\ (last'.rcode /\ ~named /\ inside) => r.server = sv
                /\ (last'.rcode /\ ~named /\ ~inside) => r.server = NoStr
                /\ sound => last'.rcode]_vars

\* A client of a virtual server and a client without a server were built,
\* and the section that followed was refused.
C22_Witness ==
    /\ last = [op |-> "afrom_cs", rcode |-> FALSE]
    /\ \E i, j \in DOMAIN client :
        /\ client[i].server = "srv1"
        /\ client[j].server = NoStr

\* C23: all-or-nothing section load.  When client_list_parse_section
\* fails, the default handle and the lists attached to the sections are as
\* before, and no lookup, by address or by number, through any handle
\* returns a client that the call had added to its list.
C23_AllOrNothing ==
    [][(reload.pc = "loop" /\ reload'.pc = "idle" /\ ~last'.rcode /\ ~crashed') =>
        LET mine == Stored(State, reload.clients)
        IN  /\ root_clients' = root_clients
            /\ cf_data' = cf_data
            /\ \A h \in LiveHandles(State', freed') :
                /\ \A q \in QueryAddrs, pr \in QueryProtos :
                        client_find(State', h, q, pr) \cap mine = {}
                /\ \A n \in 0..tree_num_max' :
                        client_findbynumber(State', h, n) \cap mine = {}]_vars

\* The record is stored in a prefix tree of a list that was not freed.
StoredLive(c) ==
    \E l \in LiveHandles(State, freed) \ {NULL} : c \in Stored(State, l)

\* C24: the number index and the prefix trees agree.  A record is in the
\* number index exactly when it is stored in a prefix tree of a live
\* list, its number being the key it is indexed under; and a record that
\* client_findbynumber returns is returned by client_find for its own
\* address and transport in the list that holds it.
C24_IndexConsistency ==
    /\ \A c \in DOMAIN client :
            (tree_num.created /\ c \in tree_num.nodes) <=> StoredLive(c)
    /\ \A h \in LiveHandles(State, freed), n \in 0..tree_num_max :
            \A x \in client_findbynumber(State, h, n) :
                x # NULL =>
                    /\ client[x].number = n
                    /\ \E l \in LiveHandles(State, freed) \ {NULL} :
                            /\ x \in Stored(State, l)
                            /\ x \in client_find(State, l, client[x].ipaddr,
                                                  client[x].proto)

====
